---- MODULE Spec2Model ----
(***************************************************************************)
(* A model of the spine-rs-cli renderer: the miniquad event handler        *)
(* `Stage` of src/src/spine.rs (update / draw / resize_event), the texture *)
(* callbacks that src/src/main.rs registers with the Spine runtime, and    *)
(* the shared texture delete queue between them.                           *)
(*                                                                         *)
(* The render thread is a sequential process whose position is `pc`; the   *)
(* dispose-texture callback runs in another context and interleaves with   *)
(* it.  One iteration of the per-renderable loop of `draw` is one step.    *)
(***************************************************************************)
EXTENDS Integers, Sequences, FiniteSets

\* ---------------------------------------------------------------- bounds

\* Number of atlas pages, each with one texture slot (its renderer object).
NumSlots == 2

\* Largest number of renderables the controller yields for one frame.
MaxRenderables == 2

\* Largest width and height, in pixels, of a readback buffer that is flipped.
MaxWidth == 2
MaxHeight == 4

\* How many times in a row the flip loop is applied to a buffer.
MaxFlips == 2

\* Largest value the clock returns, and how many updates are followed.
MaxClock == 6
MaxUpdates == 3

\* Longest --skins list.
MaxOverlays == 2

\* ------------------------------------------------------ program constants

MAX_MESH_VERTICES == 10000
MAX_MESH_INDICES == 5000

\* The logical edge of the offscreen target: the literal 800. of Stage::new.
LOGICAL_SIZE == 800

\* The 0.001 of `.max(0.001)` in Stage::update.  Time is counted in units
\* of 0.0005 s, so that an elapsed time strictly between 0 and the floor
\* exists; the floor is 2 units.
EPSILON == 2

\* Bytes of an RGBA8 pixel: the literal 4 of `w * h * 4` and `w * 4`.
BYTES_PER_PIXEL == 4

Slots == 1..NumSlots

\* ctx.dpi_scale(), in halves: 2 is a scale of 1.0 and 4 one of 2.0.
DpiScales == {2, 4}

\* The (width, height) arguments the host passes to resize_event.  Every
\* value divides exactly by every scale of DpiScales, so the f32 arithmetic
\* of the handler is exact on them.
ResizeEvents == {<<800, 800>>}

\* (vertex count, index count) of a renderable: an ordinary quad, a mesh
\* exactly at both ceilings, and one past each ceiling.
MeshSizes == {<<4, 6>>,
              <<MAX_MESH_VERTICES, MAX_MESH_INDICES>>,
              <<MAX_MESH_VERTICES + 1, 6>>,
              <<4, MAX_MESH_INDICES + 1>>}

BlendModes == {"Additive", "Multiply", "Normal", "Screen"}

\* What the loop reads of a renderable besides its attachment: the blend
\* mode and the mesh size.  Every blend mode with an ordinary quad, and
\* every mesh size with the Normal mode.
Renderables ==
    [blend_mode : BlendModes, size : {<<4, 6>>}]
        \cup [blend_mode : {"Normal"}, size : MeshSizes]

\* SpineInfo.animation, the name `render` configures.
ANIMATION == "Idle_Happy"

\* The animations a skeleton file may define: with the configured one and
\* without it.
AnimationSets == {{ANIMATION, "Walk"}, {"Walk"}, {}}

\* The premultiplied marks of the pages of an atlas: no page marked, or
\* only the last one.
PagePmaChoices == {[s \in Slots |-> FALSE], [s \in Slots |-> s = NumSlots]}

VARIABLES
    render_png,            \* Stage.render_png: TRUE = file sink
    premultiplied_alpha,   \* controller.settings.premultiplied_alpha
    dpi2,                  \* ctx.dpi_scale(), in halves
    screen_size,           \* Stage.screen_size, <<x, y>>
    color_texture,         \* <<width, height>> of Stage.color_texture
    slot,                  \* slot[s]: the SpineTexture of atlas page s
    decodes,               \* decodes[s]: decoder invocations for slot s
    texture_delete_queue,  \* the Vec<Texture> behind the mutex
    mutex,                 \* who holds the queue's mutex
    drainBuf,              \* what the live drain(..) iterator still yields
    freed,                 \* every handle texture.delete() was called on
    enqLog,                \* every handle ever pushed, in push order
    bindings,              \* Stage.bindings: per binding, its images[0]
    pc,                    \* position of the render thread
    n,                     \* renderables.len() of the frame being drawn
    i,                     \* index of the next renderable of the frame
    step,                  \* what the last loop iteration did
    maxSeen,               \* largest renderable count of any frame so far
    drained,               \* the queue was drained in the frame being drawn
    draws,                 \* draw invocations so far: 0, 1, or 2 for more
    proc,                  \* "running", "exited" (exit(0)) or "panicked"
    image,                 \* the image handed to img.save: <<w, h, bytes>>
    files,                 \* image files written
    animations,            \* names of the animations of the skeleton data
    track,                 \* the animation playing on track 0, or "none"
    capture_log,           \* the calls the capture branch made after its loop
    page_pma               \* page_pma[s]: atlas page s is marked premultiplied

\* The capture branch's readback buffer and its row flip.
VARIABLES
    width,                 \* w: width in pixels
    height,                \* h: height in pixels
    pixels,                \* the buffer, bytes 1..w*h*4 (0-based in the code)
    read_back,             \* the buffer as read_pixels filled it
    y,                     \* the flip loop's row counter
    flips                  \* completed runs of the flip loop

flipVars == <<width, height, pixels, read_back, y, flips>>

\* Stage::update and the clock it reads.
VARIABLES
    now,                   \* the last value date::now() returned
    last_frame_time,       \* Stage.last_frame_time
    dt,                    \* the dt last given to controller.update
    animation_time,        \* time the controller's animation has advanced
    updates                \* update invocations so far

clockVars == <<now, last_frame_time, dt, animation_time, updates>>

\* `render` of main.rs, from the skeleton data to miniquad::start.
VARIABLES
    heap,                  \* the Skin objects: heap[id] is a list of entries
    heap_loaded,           \* the heap as read_skeleton_data_file left it
    skeleton_data,         \* skin name -> id of the skeleton data's Skin
    base_skin,             \* the --base-skin argument
    skins_to_add,          \* the --skins argument, in order
    composite,             \* id of the composite Skin, 0 before there is one
    added,                 \* overlays merged so far
    main_pc                \* position of `render`

skinVars == <<heap, heap_loaded, skeleton_data, base_skin, skins_to_add,
              composite, added, main_pc>>

\* The pixel format of each atlas page, from the atlas file to the texture.
VARIABLES
    page_format,           \* page_format[p]: AtlasFormat of page p
    format,                \* format[p]: the slot's TextureFormat, or "unset"
    texture_format         \* texture_format[p]: format of the page's texture

formatVars == <<page_format, format, texture_format>>

renderVars == <<render_png, premultiplied_alpha, dpi2, screen_size,
                color_texture, slot, decodes, texture_delete_queue, mutex,
                drainBuf, freed, enqLog, bindings, pc, n, i, step,
                maxSeen, drained, draws, proc, image, files, animations,
                track, capture_log, page_pma>>

otherVars == <<flipVars, clockVars, skinVars, formatVars>>

vars == <<renderVars, otherVars>>

\* --------------------------------------------------------- blend mapping

BlendState(equation, sfactor, dfactor) ==
    [equation |-> equation, sfactor |-> sfactor, dfactor |-> dfactor]

\* BlendFactor::Value(v) and BlendFactor::OneMinusValue(v)
Value(v) == <<"Value", v>>
OneMinusValue(v) == <<"OneMinusValue", v>>
One == <<"One">>

get_blend_states_ignoring_pma(mode, pma) ==
    CASE mode = "Additive" ->
           [alpha_blend |-> BlendState("Add", One, One),
            color_blend |-> BlendState("Add", Value("SourceAlpha"), One)]
      [] mode = "Multiply" ->
           [alpha_blend |-> BlendState("Add", OneMinusValue("SourceAlpha"),
                                       OneMinusValue("SourceAlpha")),
            color_blend |-> BlendState("Add", Value("DestinationColor"),
                                       OneMinusValue("SourceAlpha"))]
      [] mode = "Normal" ->
           [alpha_blend |-> BlendState("Add", One,
                                       OneMinusValue("SourceAlpha")),
            color_blend |-> BlendState("Add", Value("SourceAlpha"),
                                       OneMinusValue("SourceAlpha"))]
      [] mode = "Screen" ->
           [alpha_blend |-> BlendState("Add", OneMinusValue("SourceColor"),
                                       OneMinusValue("SourceAlpha")),
            color_blend |-> BlendState("Add", One,
                                       OneMinusValue("SourceAlpha"))]

get_blend_states(mode, pma) ==
    CASE mode = "Additive" ->
           IF ~pma
           THEN [alpha_blend |-> BlendState("Add", One, One),
                 color_blend |-> BlendState("Add", Value("SourceAlpha"), One)]
           ELSE [alpha_blend |-> BlendState("Add", One, One),
                 color_blend |-> BlendState("Add", One, One)]
      [] mode = "Multiply" ->
           IF ~pma
           THEN [alpha_blend |-> BlendState("Add", OneMinusValue("SourceAlpha"),
                                            OneMinusValue("SourceAlpha")),
                 color_blend |-> BlendState("Add", Value("DestinationColor"),
                                            OneMinusValue("SourceAlpha"))]
           ELSE [alpha_blend |-> BlendState("Add", OneMinusValue("SourceAlpha"),
                                            OneMinusValue("SourceAlpha")),
                 color_blend |-> BlendState("Add", Value("DestinationColor"),
                                            OneMinusValue("SourceAlpha"))]
      [] mode = "Normal" ->
           IF ~pma
           THEN [alpha_blend |-> BlendState("Add", One,
                                            OneMinusValue("SourceAlpha")),
                 color_blend |-> BlendState("Add", Value("SourceAlpha"),
                                            OneMinusValue("SourceAlpha"))]
           ELSE [alpha_blend |-> BlendState("Add", One,
                                            OneMinusValue("SourceAlpha")),
                 color_blend |-> BlendState("Add", One,
                                            OneMinusValue("SourceAlpha"))]
      [] mode = "Screen" ->
           IF ~pma
           THEN [alpha_blend |-> BlendState("Add", OneMinusValue("SourceColor"),
                                            OneMinusValue("SourceAlpha")),
                 color_blend |-> BlendState("Add", One,
                                            OneMinusValue("SourceAlpha"))]
           ELSE [alpha_blend |-> BlendState("Add", OneMinusValue("SourceColor"),
                                            OneMinusValue("SourceAlpha")),
                 color_blend |-> BlendState("Add", One,
                                            OneMinusValue("SourceAlpha"))]

\* --------------------------------------------------------- texture slots

\* Texture::empty()
EmptyTexture == <<0, 0>>

\* A GPU texture is named by what created it: the k-th texture created for
\* slot s.  Two creations never yield the same texture.
NewTexture(s, k) == <<s, k>>

Unset == [tag |-> "Unset", tex |-> EmptyTexture]
NeedsToBeLoaded == [tag |-> "NeedsToBeLoaded", tex |-> EmptyTexture]
Disposed == [tag |-> "Disposed", tex |-> EmptyTexture]

LoadedKeepsPending(tex) == NeedsToBeLoaded

\* `*spine_texture = SpineTexture::Loaded(tex)`
Loaded(tex) == [tag |-> "Loaded", tex |-> tex]

MatchesAnything(st) == TRUE

\* The arm `SpineTexture::NeedsToBeLoaded { .. } =>` of the match in draw.
IsNeedsToBeLoaded(st) == st.tag = "NeedsToBeLoaded"

\* ----------------------------------------------------------- the queue

PushFront(q, tex) == <<tex>> \o q

\* Vec::push under the guard
Push(q, tex) == Append(q, tex)

LockIgnored == TRUE

\* Mutex::lock returns only when nobody holds the mutex.
LockAvailable == mutex = "free"

\* ----------------------------------------------------------- the pool

Max(a, b) == IF a >= b THEN a ELSE b

RECURSIVE Repeat(_, _)
Repeat(x, k) == IF k <= 0 THEN <<>> ELSE <<x>> \o Repeat(x, k - 1)

ResizePool(b, count) ==
    IF count > Len(b) THEN b \o Repeat(EmptyTexture, count - Len(b))
    ELSE SubSeq(b, 1, count)

GrowByOne(b, count) ==
    IF count > Len(b) THEN Append(b, EmptyTexture) ELSE b

\* `while renderables.len() > self.bindings.len() { self.bindings.push(..) }`
GrowPool(b, count) ==
    IF count > Len(b) THEN b \o Repeat(EmptyTexture, count - Len(b)) ELSE b

\* ------------------------------------------------------ capture geometry

\* (800. * ctx.dpi_scale()) as u32
TargetEdge(d2) == (LOGICAL_SIZE * d2) \div 2

\* (self.screen_size.x * ctx.dpi_scale()) as usize
ReadbackEdge(size, d2) == (size * d2) \div 2

\* Vec2::new(width, height) / ctx.dpi_scale()
Logical(px, d2) == (px * 2) \div d2

ReturnsToLoop == "running"

\* std::process::exit(0)
Exit0 == "exited"

NoBlend == BlendState("Add", One, One)

\* No iteration of the loop has run in the frame.
NoStep == [kind |-> "none", mode |-> "Normal", color |-> NoBlend,
           alpha |-> NoBlend, vlen |-> 0, ilen |-> 0, slot |-> 0,
           tex |-> EmptyTexture, loaded |-> FALSE, binding |-> 0]

NoImage == <<0, 0, 0>>

\* -------------------------------------------- parts explored on their own

\* The values the variables of a part hold in the specifications that do
\* not exercise it.
FlipAtRest ==
    /\ width = 0 /\ height = 0
    /\ pixels = <<>> /\ read_back = <<>>
    /\ y = 0 /\ flips = 0

ClockAtRest ==
    /\ now = 0 /\ last_frame_time = 0
    /\ dt = 0 /\ animation_time = 0 /\ updates = 0

SkinAtRest ==
    /\ heap = <<>> /\ heap_loaded = <<>>
    /\ skeleton_data = <<>>
    /\ base_skin = "" /\ skins_to_add = <<>>
    /\ composite = 0 /\ added = 0
    /\ main_pc = "started"

FormatAtRest ==
    /\ page_format = <<>> /\ format = <<>> /\ texture_format = <<>>

\* The render thread and the callbacks before anything is loaded, for the
\* specifications that explore another part.
RenderAtRest ==
    /\ render_png = FALSE /\ dpi2 = 2
    /\ premultiplied_alpha = FALSE
    /\ screen_size = <<0, 0>> /\ color_texture = <<0, 0>>
    /\ slot = [s \in Slots |-> Unset]
    /\ decodes = [s \in Slots |-> 0]
    /\ texture_delete_queue = <<>> /\ mutex = "free"
    /\ drainBuf = <<>> /\ freed = <<>> /\ enqLog = <<>>
    /\ bindings = <<>>
    /\ pc = "load" /\ n = 0 /\ i = 1 /\ step = NoStep
    /\ maxSeen = 0 /\ drained = FALSE /\ draws = 0
    /\ proc = "running" /\ image = NoImage /\ files = 0
    /\ animations = {ANIMATION} /\ track = "none"
    /\ capture_log = <<>>
    /\ page_pma = [s \in Slots |-> FALSE]

\* ------------------------------------------------------------------ Init

\* The process before the atlas is read: which sink is configured and the
\* display's scale factor are fixed by the environment.  The scale factor
\* is read by Stage::new, by resize_event and by the capture branch's
\* readback only; the screen sink is explored at a scale of 1.0.
Init ==
    /\ render_png \in BOOLEAN
    /\ dpi2 \in (IF render_png THEN DpiScales ELSE {2})
    /\ premultiplied_alpha = FALSE
    /\ screen_size = <<0, 0>>
    /\ color_texture = <<0, 0>>
    /\ slot = [s \in Slots |-> Unset]
    /\ decodes = [s \in Slots |-> 0]
    /\ texture_delete_queue = <<>>
    /\ mutex = "free"
    /\ drainBuf = <<>>
    /\ freed = <<>>
    /\ enqLog = <<>>
    /\ bindings = <<>>
    /\ pc = "load"
    /\ n = 0
    /\ i = 1
    /\ step = NoStep
    /\ maxSeen = 0
    /\ drained = FALSE
    /\ draws = 0
    /\ proc = "running"
    /\ image = NoImage
    /\ files = 0
    /\ animations \in AnimationSets
    /\ track = "none"
    /\ capture_log = <<>>
    /\ page_pma \in PagePmaChoices
    /\ FlipAtRest /\ ClockAtRest /\ SkinAtRest /\ FormatAtRest

\* ------------------------------------------------------------- loading

\* The create-texture callback, run by the atlas loader once per page, in
\* page order.
CreateTexture(s) ==
    /\ proc = "running" /\ pc = "load"
    /\ slot[s] = Unset
    /\ \A t \in Slots : t < s => slot[t] # Unset
    /\ slot' = [slot EXCEPT ![s] = NeedsToBeLoaded]
    /\ UNCHANGED <<render_png, premultiplied_alpha, dpi2, screen_size,
                   color_texture, decodes, texture_delete_queue, mutex,
                   drainBuf, freed, enqLog, bindings, pc, n, i, step, maxSeen,
                   drained, draws, proc, image, files, animations, track,
                   capture_log, page_pma, otherVars>>

all_pages_pma == \A s \in Slots : page_pma[s]

\* atlas.pages().any(|page| page.pma())
any_page_pma == \E s \in Slots : page_pma[s]

FindAnimationAlways(name) == TRUE

\* set_animation_by_name is Ok only for a name the skeleton data defines.
FindAnimation(name) == name \in animations

\* Stage::new: the offscreen target, the loaded skeleton (whose atlas fixes
\* the premultiplied flag) with the animation started on track 0, and an
\* empty pool.
StageNew(pma) ==
    /\ proc = "running" /\ pc = "load"
    /\ \A s \in Slots : slot[s] # Unset
    /\ FindAnimation(ANIMATION)
    /\ track' = ANIMATION
    /\ pma = any_page_pma
    /\ color_texture' = <<TargetEdge(dpi2), TargetEdge(dpi2)>>
    /\ screen_size' = <<TargetEdge(dpi2), TargetEdge(dpi2)>>
    /\ premultiplied_alpha' = pma
    /\ bindings' = <<>>
    /\ pc' = "update"
    /\ UNCHANGED <<render_png, dpi2, slot, decodes, texture_delete_queue,
                   mutex, drainBuf, freed, enqLog, n, i, step, maxSeen,
                   drained, draws, proc, image, files, animations,
                   capture_log, page_pma, otherVars>>

\* Spine::load inside Stage::new when the skeleton data has no animation of
\* the configured name: set_animation_by_name is Err and the unwrap_or_else
\* panics, so Stage::new never returns.
StageNewFails ==
    /\ proc = "running" /\ pc = "load"
    /\ \A s \in Slots : slot[s] # Unset
    /\ ~FindAnimation(ANIMATION)
    /\ proc' = "panicked"
    /\ UNCHANGED <<render_png, premultiplied_alpha, dpi2, screen_size,
                   color_texture, slot, decodes, texture_delete_queue, mutex,
                   drainBuf, freed, enqLog, bindings, pc, n, i, step, maxSeen,
                   drained, draws, image, files, animations, track,
                   capture_log, page_pma, otherVars>>

\* ------------------------------------------------------ the event handlers

\* EventHandler::update
Update ==
    /\ proc = "running" /\ pc = "update"
    /\ pc' = "draw"
    /\ UNCHANGED <<render_png, premultiplied_alpha, dpi2, screen_size,
                   color_texture, slot, decodes, texture_delete_queue, mutex,
                   drainBuf, freed, enqLog, bindings, n, i, step, maxSeen,
                   drained, draws, proc, image, files, animations, track,
                   capture_log, page_pma, otherVars>>

\* EventHandler::resize_event, delivered by the host between two ticks.
ResizeEvent(ev) ==
    /\ proc = "running" /\ pc = "update"
    /\ screen_size' = <<Logical(ev[1], dpi2), Logical(ev[2], dpi2)>>
    /\ UNCHANGED <<render_png, premultiplied_alpha, dpi2, color_texture, slot,
                   decodes, texture_delete_queue, mutex, drainBuf, freed,
                   enqLog, bindings, pc, n, i, step, maxSeen, drained, draws,
                   proc, image, files, animations, track, capture_log,
                   page_pma, otherVars>>

AlwaysCapture == TRUE

\* `if self.render_png`: the capture branch is taken, else the screen one.
CaptureBranch == render_png

\* EventHandler::draw up to the branch on render_png: the renderables of the
\* current pose are taken and the pool is grown to hold them.
DrawBegin(count) ==
    /\ proc = "running" /\ pc = "draw"
    /\ n' = count
    /\ bindings' = GrowPool(bindings, count)
    /\ maxSeen' = Max(maxSeen, count)
    /\ i' = 1
    /\ step' = NoStep
    /\ drained' = FALSE
    /\ draws' = IF draws = 0 THEN 1 ELSE 2
    /\ pc' = IF CaptureBranch THEN "loop" ELSE "lock"
    /\ UNCHANGED <<render_png, premultiplied_alpha, dpi2, screen_size,
                   color_texture, slot, decodes, texture_delete_queue, mutex,
                   drainBuf, freed, enqLog, proc, image, files, animations,
                   track, capture_log, page_pma, otherVars>>

\* Screen branch: `self.texture_delete_queue.lock().unwrap().drain(..)`.
\* The guard is held for the whole loop; drain(..) empties the Vec at once
\* and yields its former elements one by one.
DrainLock ==
    /\ proc = "running" /\ pc = "lock"
    /\ LockAvailable
    /\ mutex' = "render"
    /\ drainBuf' = texture_delete_queue
    /\ texture_delete_queue' = <<>>
    /\ pc' = "draining"
    /\ UNCHANGED <<render_png, premultiplied_alpha, dpi2, screen_size,
                   color_texture, slot, decodes, freed, enqLog, bindings, n,
                   i, step, maxSeen, drained, draws, proc, image, files,
                   animations, track, capture_log, page_pma, otherVars>>

\* The body of the drain loop, `texture_delete.delete()` for each handle in
\* turn, then the guard is dropped.
DrainFree ==
    /\ proc = "running" /\ pc = "draining"
    /\ freed' = freed \o drainBuf
    /\ drainBuf' = <<>>
    /\ mutex' = "free"
    /\ drained' = TRUE
    /\ pc' = "loop"
    /\ UNCHANGED <<render_png, premultiplied_alpha, dpi2, screen_size,
                   color_texture, slot, decodes, texture_delete_queue, enqLog,
                   bindings, n, i, step, maxSeen, draws, proc, image, files,
                   animations, track, capture_log, page_pma, otherVars>>

\* ------------------------------------------------- the per-renderable loop

\* A renderable of the frame is processed with the pooled binding zipped to
\* it.
\* renderables.into_iter().zip(self.bindings.iter_mut()) yields as many
\* pairs as the shorter of the two has elements.
ZipLen == IF n <= Len(bindings) THEN n ELSE Len(bindings)

InLoop == proc = "running" /\ pc = "loop" /\ i <= ZipLen

Oversized(size) == size[1] > MAX_MESH_VERTICES \/ size[2] > MAX_MESH_INDICES

\* The attachment of a renderable points at the slot of a page that is
\* still loaded in the runtime.
Referable(s) == slot[s].tag \in {"NeedsToBeLoaded", "Loaded"}

\* What one iteration did: the blend states it gave to ctx.set_blend, the
\* lengths it gave to the two Buffer::update calls, and how it ended.
StepRecord(kind, r, s, tex, loaded) ==
    LET bs == get_blend_states(r.blend_mode, premultiplied_alpha)
    IN  [kind |-> kind, mode |-> r.blend_mode,
         color |-> bs.color_blend, alpha |-> bs.alpha_blend,
         vlen |-> r.size[1], ilen |-> r.size[2],
         slot |-> s, tex |-> tex, loaded |-> loaded, binding |-> i]

\* One pass through the body of the capture branch's loop
\* (spine.rs 270-352) for renderable r, whose attachment renderer object is
\* the slot of page s, or None when s = 0: what it did, and the slots, the
\* decode counts and the pool it leaves.
CaptureIteration(r, s) ==
    IF s = 0
    THEN [step |-> StepRecord("skip", r, 0, EmptyTexture, FALSE),
          slot |-> slot, decodes |-> decodes, bindings |-> bindings]
    ELSE LET load == IsNeedsToBeLoaded(slot[s])
             tex == IF load THEN NewTexture(s, decodes[s] + 1)
                    ELSE slot[s].tex
         IN  [step |-> StepRecord("draw", r, s, tex, load),
              slot |-> IF load THEN [slot EXCEPT ![s] = Loaded(tex)]
                       ELSE slot,
              decodes |-> IF load THEN [decodes EXCEPT ![s] = @ + 1]
                          ELSE decodes,
              bindings |-> [bindings EXCEPT ![i] = tex]]

ScreenIterationUnbound(r, s) ==
    [CaptureIteration(r, s) EXCEPT !.bindings = bindings]

ScreenIterationClearing(r, s) ==
    IF s = 0
    THEN [CaptureIteration(r, s) EXCEPT
             !.bindings = [bindings EXCEPT ![i] = EmptyTexture]]
    ELSE CaptureIteration(r, s)

\* One pass through the body of the screen branch's loop (spine.rs 415-499).
ScreenIteration(r, s) ==
    IF s = 0
    THEN [step |-> StepRecord("skip", r, 0, EmptyTexture, FALSE),
          slot |-> slot, decodes |-> decodes, bindings |-> bindings]
    ELSE LET load == IsNeedsToBeLoaded(slot[s])
             texture == IF load THEN NewTexture(s, decodes[s] + 1)
                        ELSE slot[s].tex
         IN  [step |-> StepRecord("draw", r, s, texture, load),
              slot |-> IF load THEN [slot EXCEPT ![s] = Loaded(texture)]
                       ELSE slot,
              decodes |-> IF load THEN [decodes EXCEPT ![s] = @ + 1]
                          ELSE decodes,
              bindings |-> [bindings EXCEPT ![i] = texture]]

\* The loop body of the branch that `if self.render_png` selects.
Iteration(r, s) ==
    IF CaptureBranch THEN CaptureIteration(r, s) ELSE ScreenIteration(r, s)

\* Blend state set, both buffers updated; the renderable has no attachment
\* renderer object, so `continue`.
DrawNoAttachment(r) ==
    /\ InLoop
    /\ step' = Iteration(r, 0).step
    /\ bindings' = Iteration(r, 0).bindings
    /\ i' = i + 1
    /\ UNCHANGED <<render_png, premultiplied_alpha, dpi2, screen_size,
                   color_texture, slot, decodes, texture_delete_queue, mutex,
                   drainBuf, freed, enqLog, pc, n, maxSeen, drained, draws,
                   proc, image, files, animations, track, capture_log,
                   page_pma, otherVars>>

\* Blend state set, buffers updated, texture resolved (decoded and uploaded
\* if the slot still needs it), bound to the binding, draw call issued.
DrawTextured(r, s) ==
    /\ InLoop
    /\ Referable(s)
    /\ slot' = Iteration(r, s).slot
    /\ decodes' = Iteration(r, s).decodes
    /\ bindings' = Iteration(r, s).bindings
    /\ step' = Iteration(r, s).step
    /\ i' = i + 1
    /\ UNCHANGED <<render_png, premultiplied_alpha, dpi2, screen_size,
                   color_texture, texture_delete_queue, mutex, drainBuf,
                   freed, enqLog, pc, n, maxSeen, drained, draws, proc, image,
                   files, animations, track, capture_log, page_pma,
                   otherVars>>

ErrorIgnored == "running"

\* unwrap_or_else(|_| panic!("failed to open image: ..")), and the same for
\* decode.
DecodePanic == "panicked"

\* The image of a slot that needs loading cannot be opened or decoded: the
\* unwrap_or_else panics.
DrawDecodeFails(r, s) ==
    /\ InLoop
    /\ Referable(s)
    /\ IsNeedsToBeLoaded(slot[s])
    /\ decodes' = [decodes EXCEPT ![s] = @ + 1]
    /\ step' = StepRecord("decode_failed", r, s, EmptyTexture, FALSE)
    /\ proc' = DecodePanic
    /\ UNCHANGED <<render_png, premultiplied_alpha, dpi2, screen_size,
                   color_texture, slot, texture_delete_queue, mutex, drainBuf,
                   freed, enqLog, bindings, pc, n, i, maxSeen, drained, draws,
                   image, files, animations, track, capture_log, page_pma,
                   otherVars>>

\* The draw handler compares no count with a ceiling; the only thing that
\* can stop an oversized update is the GPU library's Buffer::update itself,
\* which may abort the process.
DrawUpdateAborts(r) ==
    /\ InLoop
    /\ Oversized(r.size)
    /\ step' = StepRecord("update_aborted", r, 0, EmptyTexture, FALSE)
    /\ proc' = "panicked"
    /\ UNCHANGED <<render_png, premultiplied_alpha, dpi2, screen_size,
                   color_texture, slot, decodes, texture_delete_queue, mutex,
                   drainBuf, freed, enqLog, bindings, pc, n, i, maxSeen,
                   drained, draws, image, files, animations, track,
                   capture_log, page_pma, otherVars>>

\* Screen branch after the loop: end_render_pass, commit_frame, return.
DrawEnd ==
    /\ proc = "running" /\ pc = "loop" /\ i > ZipLen
    /\ ~CaptureBranch
    /\ pc' = "update"
    /\ step' = NoStep
    /\ UNCHANGED <<render_png, premultiplied_alpha, dpi2, screen_size,
                   color_texture, slot, decodes, texture_delete_queue, mutex,
                   drainBuf, freed, enqLog, bindings, n, i, maxSeen, drained,
                   draws, proc, image, files, animations, track, capture_log,
                   page_pma, otherVars>>

SavedBeforeReadback ==
    <<"end_render_pass", "commit_frame", "save", "read_pixels", "flip">>

\* The calls of the capture branch after its loop, in program order.
CaptureCalls ==
    <<"end_render_pass", "commit_frame", "read_pixels", "flip", "save">>

\* Capture branch after the loop: the readback buffer is sized from
\* screen_size and the scale factor, read back, flipped, saved, and the
\* process exits.
CaptureSave ==
    /\ proc = "running" /\ pc = "loop" /\ i > ZipLen
    /\ CaptureBranch
    /\ LET w == ReadbackEdge(screen_size[1], dpi2)
           h == ReadbackEdge(screen_size[2], dpi2)
       IN  image' = <<w, h, w * h * 4>>
    /\ capture_log' = CaptureCalls
    /\ files' = files + 1
    /\ proc' = Exit0
    /\ pc' = "update"
    /\ UNCHANGED <<render_png, premultiplied_alpha, dpi2, screen_size,
                   color_texture, slot, decodes, texture_delete_queue, mutex,
                   drainBuf, freed, enqLog, bindings, n, i, step, maxSeen,
                   drained, draws, animations, track, page_pma, otherVars>>

\* img.save fails: the expect panics and nothing is written.
CaptureSaveFails ==
    /\ proc = "running" /\ pc = "loop" /\ i > ZipLen
    /\ CaptureBranch
    /\ capture_log' = SubSeq(CaptureCalls, 1, Len(CaptureCalls) - 1)
    /\ proc' = "panicked"
    /\ UNCHANGED <<render_png, premultiplied_alpha, dpi2, screen_size,
                   color_texture, slot, decodes, texture_delete_queue, mutex,
                   drainBuf, freed, enqLog, bindings, pc, n, i, step, maxSeen,
                   drained, draws, image, files, animations, track, page_pma,
                   otherVars>>

\* ------------------------------------------------- the dispose callback

MatchesAnySlot(st) == TRUE

\* `if let Some(SpineTexture::Loaded(texture)) = ..get::<SpineTexture>()`
IsLoaded(st) == st.tag = "Loaded"

\* The runtime unloads a page whose slot was never loaded: nothing is
\* pushed, the renderer object is disposed.
DisposeUnloaded(s) ==
    /\ proc = "running" /\ pc # "load"
    /\ Referable(s)
    /\ ~IsLoaded(slot[s])
    /\ slot' = [slot EXCEPT ![s] = Disposed]
    /\ UNCHANGED <<render_png, premultiplied_alpha, dpi2, screen_size,
                   color_texture, decodes, texture_delete_queue, mutex,
                   drainBuf, freed, enqLog, bindings, pc, n, i, step, maxSeen,
                   drained, draws, proc, image, files, animations, track,
                   capture_log, page_pma, otherVars>>

\* The runtime unloads a page whose slot is Loaded: the callback locks the
\* queue, pushes the slot's handle, drops the guard at the end of the
\* statement, and disposes the renderer object.  The push is the whole
\* critical section, so it is one step, taken when the mutex can be had.
DisposeLoaded(s) ==
    /\ proc = "running" /\ pc # "load"
    /\ Referable(s)
    /\ IsLoaded(slot[s])
    /\ LockAvailable
    /\ texture_delete_queue' = Push(texture_delete_queue, slot[s].tex)
    /\ enqLog' = Append(enqLog, slot[s].tex)
    /\ slot' = [slot EXCEPT ![s] = Disposed]
    /\ UNCHANGED <<render_png, premultiplied_alpha, dpi2, screen_size,
                   color_texture, decodes, mutex, drainBuf, freed, bindings,
                   pc, n, i, step, maxSeen, drained, draws, proc, image,
                   files, animations, track, capture_log, page_pma,
                   otherVars>>

\* ------------------------------------------------------------------ Next

Next ==
    \/ \E s \in Slots : CreateTexture(s)
    \/ \E pma \in BOOLEAN : StageNew(pma)
    \/ StageNewFails
    \/ Update
    \/ \E ev \in ResizeEvents : ResizeEvent(ev)
    \/ \E count \in 0..MaxRenderables : DrawBegin(count)
    \/ DrainLock
    \/ DrainFree
    \/ \E r \in Renderables : DrawNoAttachment(r)
    \/ \E r \in Renderables, s \in Slots : DrawTextured(r, s)
    \/ \E r \in Renderables, s \in Slots : DrawDecodeFails(r, s)
    \/ \E r \in Renderables : DrawUpdateAborts(r)
    \/ DrawEnd
    \/ CaptureSave
    \/ CaptureSaveFails
    \/ \E s \in Slots : DisposeUnloaded(s)
    \/ \E s \in Slots : DisposeLoaded(s)

Spec == Init /\ [][Next]_vars

\* ============================================================ the row flip

\* What read_pixels may have put in a buffer of `len` bytes.  The flip moves
\* bytes without looking at them, so a buffer whose bytes are all different
\* shows where every byte goes; a descending and a constant one are added.
Buffers(len) ==
    {[k \in 1..len |-> (k - 1) % 256],
     [k \in 1..len |-> 255 - ((k - 1) % 256)],
     [k \in 1..len |-> 0]}

\* let line_bytes = w * 4;
LineBytes(wd) == wd * BYTES_PER_PIXEL

AllRows(ht) == ht

\* for y in 0..(h / 2)
HalfRows(ht) == ht \div 2

CopyRowDown(p, top_start, bot_start, lb) ==
    [k \in 1..Len(p) |->
        IF bot_start < k /\ k <= bot_start + lb
        THEN p[top_start + (k - bot_start)]
        ELSE p[k]]

\* split_at_mut(bot_start), the two row slices, swap_with_slice: the
\* line_bytes bytes from top_start change places with those from bot_start.
\* Byte j of the code is element j + 1 here.
SwapRows(p, top_start, bot_start, lb) ==
    [k \in 1..Len(p) |->
        IF top_start < k /\ k <= top_start + lb
        THEN p[bot_start + (k - top_start)]
        ELSE IF bot_start < k /\ k <= bot_start + lb
        THEN p[top_start + (k - bot_start)]
        ELSE p[k]]

\* vec![0u8; w * h * 4] filled by read_pixels, for every size within bounds.
InitFlip ==
    /\ width \in 0..MaxWidth
    /\ height \in 0..MaxHeight
    /\ read_back \in Buffers(width * height * BYTES_PER_PIXEL)
    /\ pixels = read_back
    /\ y = 0
    /\ flips = 0
    /\ RenderAtRest /\ ClockAtRest /\ SkinAtRest /\ FormatAtRest

\* One iteration of the flip loop.
FlipRow ==
    /\ flips < MaxFlips
    /\ y < HalfRows(height)
    /\ LET line_bytes == LineBytes(width)
           top_start == y * line_bytes
           bot_start == (height - 1 - y) * line_bytes
       IN  pixels' = SwapRows(pixels, top_start, bot_start, line_bytes)
    /\ y' = y + 1
    /\ UNCHANGED <<width, height, read_back, flips>>
    /\ UNCHANGED <<renderVars, clockVars, skinVars, formatVars>>

\* The range 0..(h / 2) is exhausted.
FlipEnd ==
    /\ flips < MaxFlips
    /\ y >= HalfRows(height)
    /\ flips' = flips + 1
    /\ y' = 0
    /\ UNCHANGED <<width, height, pixels, read_back>>
    /\ UNCHANGED <<renderVars, clockVars, skinVars, formatVars>>

NextFlip == FlipRow \/ FlipEnd

SpecFlip == InitFlip /\ [][NextFlip]_vars

\* ================================================================ the clock

NoClamp(elapsed) == elapsed

\* ((now - self.last_frame_time) as f32).max(0.001)
Clamp(elapsed) == Max(elapsed, EPSILON)

\* Stage::new stores the clock's value in last_frame_time.
InitClock ==
    /\ now \in 0..MaxClock
    /\ last_frame_time = now
    /\ dt = 0
    /\ animation_time = 0
    /\ updates = 0
    /\ RenderAtRest /\ FlipAtRest /\ SkinAtRest /\ FormatAtRest

\* EventHandler::update when date::now() returns t, which may be later
\* than, equal to or (a clock set back) earlier than the previous reading.
\* controller.update(dt, ..) advances the playing animation by dt.
UpdateClock(t) ==
    /\ updates < MaxUpdates
    /\ now' = t
    /\ dt' = Clamp(t - last_frame_time)
    /\ animation_time' = animation_time + dt'
    /\ last_frame_time' = t
    /\ updates' = updates + 1
    /\ UNCHANGED <<renderVars, flipVars, skinVars, formatVars>>

NextClock == \E t \in 0..MaxClock : UpdateClock(t)

SpecClock == InitClock /\ [][NextClock]_vars

\* ======================================================== skin composition

\* The skins of a skeleton file, in file order, and the attachment keys a
\* skin may define, in the order their entries are stored.
SkinOrder == <<"A", "B", "C">>
KeyOrder == <<"head", "hat">>

SkinNames == {SkinOrder[j] : j \in 1..Len(SkinOrder)}
Keys == {KeyOrder[j] : j \in 1..Len(KeyOrder)}

\* A name on the command line: one of the file's skins or one it lacks.
RequestedNames == SkinNames \cup {"missing"}

RECURSIVE SeqsUpTo(_, _)
SeqsUpTo(S, len) ==
    IF len = 0 THEN {<<>>}
    ELSE LET shorter == SeqsUpTo(S, len - 1)
         IN  shorter \cup {Append(q, x) : q \in shorter, x \in S}

\* An entry of a skin: the attachment key and its definition.  A skin of
\* the file defines each of its keys with a definition of its own.
Entry(key, def) == [key |-> key, def |-> def]

SkinOf(name, keys) ==
    LET own == SelectSeq(KeyOrder, LAMBDA k : k \in keys)
    IN  [j \in 1..Len(own) |-> Entry(own[j], <<name, own[j]>>)]

\* read_skeleton_data_file: one Skin object per skin of the file.
LoadedHeap(keysOf) ==
    [j \in 1..Len(SkinOrder) |-> SkinOf(SkinOrder[j], keysOf[SkinOrder[j]])]

\* find_skin(name) is Some exactly for the names of the skeleton data.
find_skin(name) ==
    IF name \in DOMAIN skeleton_data THEN skeleton_data[name] ELSE 0

HasKey(entries, key) == \E j \in 1..Len(entries) : entries[j].key = key

\* The runtime's set-attachment: the entry of that key is replaced, or a
\* new entry is added when the skin has none.
SetAttachment(entries, e) ==
    IF HasKey(entries, e.key)
    THEN [j \in 1..Len(entries) |->
             IF entries[j].key = e.key THEN e ELSE entries[j]]
    ELSE Append(entries, e)

KeepExisting(entries, e) ==
    IF HasKey(entries, e.key) THEN entries ELSE Append(entries, e)

RECURSIVE add_skin_keeping(_, _)
add_skin_keeping(self, other) ==
    IF other = <<>> THEN self
    ELSE add_skin_keeping(KeepExisting(self, Head(other)), Tail(other))

\* Skin::add_skin: every entry of `other` is set on `self`.
RECURSIVE add_skin(_, _)
add_skin(self, other) ==
    IF other = <<>> THEN self
    ELSE add_skin(SetAttachment(self, Head(other)), Tail(other))

EmptySkin(entries) == <<>>

\* Skin::clone: the clone has the entries of the skin it is cloned from ...
CloneEntries(entries) == entries

SameObject(id) == id

\* ... and is a new object.
CloneObject(id) == Len(heap) + 1

\* The heap after `entries` is written to object `id`, new or existing.
Store(id, entries) ==
    IF id = Len(heap) + 1 THEN Append(heap, entries)
    ELSE [heap EXCEPT ![id] = entries]

StartsAtOnce == main_pc = "compose"

\* miniquad::start is reached when the loop over skins_to_add has ended.
ReadyToStart == main_pc = "overlays" /\ added = Len(skins_to_add)

\* `render` after read_skeleton_data_file, for every skeleton file and
\* every pair of skin arguments within bounds.
InitSkin ==
    /\ heap \in {LoadedHeap(keysOf) : keysOf \in [SkinNames -> SUBSET Keys]}
    /\ heap_loaded = heap
    /\ skeleton_data = [name \in SkinNames |->
                           CHOOSE j \in 1..Len(SkinOrder) : SkinOrder[j] = name]
    /\ base_skin \in RequestedNames
    /\ skins_to_add \in SeqsUpTo(RequestedNames, MaxOverlays)
    /\ composite = 0
    /\ added = 0
    /\ main_pc = "compose"
    /\ RenderAtRest /\ FlipAtRest /\ ClockAtRest /\ FormatAtRest

\* find_skin(base_skin).expect(..).clone()
FindBaseSkin ==
    /\ main_pc = "compose"
    /\ find_skin(base_skin) # 0
    /\ LET found == find_skin(base_skin)
           clone == CloneObject(found)
       IN  /\ composite' = clone
           /\ heap' = Store(clone, CloneEntries(heap[found]))
    /\ main_pc' = "overlays"
    /\ UNCHANGED <<heap_loaded, skeleton_data, base_skin, skins_to_add, added>>
    /\ UNCHANGED <<renderVars, flipVars, clockVars, formatVars>>

\* find_skin(base_skin) is None: the expect panics.
FindBaseSkinFails ==
    /\ main_pc = "compose"
    /\ find_skin(base_skin) = 0
    /\ main_pc' = "panicked"
    /\ UNCHANGED <<heap, heap_loaded, skeleton_data, base_skin, skins_to_add,
                   composite, added>>
    /\ UNCHANGED <<renderVars, flipVars, clockVars, formatVars>>

\* One iteration of `for skin in skins_to_add`: found, and merged into the
\* composite.
AddOverlay ==
    /\ main_pc = "overlays"
    /\ added < Len(skins_to_add)
    /\ find_skin(skins_to_add[added + 1]) # 0
    /\ LET s == find_skin(skins_to_add[added + 1])
       IN  heap' = Store(composite, add_skin(heap[composite], heap[s]))
    /\ added' = added + 1
    /\ UNCHANGED <<heap_loaded, skeleton_data, base_skin, skins_to_add,
                   composite, main_pc>>
    /\ UNCHANGED <<renderVars, flipVars, clockVars, formatVars>>

\* One iteration of the loop: the skin is not found, the expect panics.
AddOverlayFails ==
    /\ main_pc = "overlays"
    /\ added < Len(skins_to_add)
    /\ find_skin(skins_to_add[added + 1]) = 0
    /\ main_pc' = "panicked"
    /\ UNCHANGED <<heap, heap_loaded, skeleton_data, base_skin, skins_to_add,
                   composite, added>>
    /\ UNCHANGED <<renderVars, flipVars, clockVars, formatVars>>

\* miniquad::start: the window and the GPU context exist from here on, and
\* the closure goes on to build the render stage.
MiniquadStart ==
    /\ ReadyToStart
    /\ main_pc' = "started"
    /\ UNCHANGED <<heap, heap_loaded, skeleton_data, base_skin, skins_to_add,
                   composite, added>>
    /\ UNCHANGED <<renderVars, flipVars, clockVars, formatVars>>

NextSkin ==
    \/ FindBaseSkin
    \/ FindBaseSkinFails
    \/ AddOverlay
    \/ AddOverlayFails
    \/ MiniquadStart

SpecSkin == InitSkin /\ [][NextSkin]_vars

\* ============================================================ pixel formats

\* The formats an atlas file can give a page.
AtlasFormats == {"Alpha", "Intensity", "LuminanceAlpha", "RGB565",
                 "RGBA4444", "RGB888", "RGBA8888"}

\* fn convert_format of the create-texture callback.
convert_format(f) ==
    CASE f = "RGB888" -> "RGB8"
      [] f = "RGBA8888" -> "RGBA8"
      [] OTHER -> "RGBA8"

\* `match format` of the draw handler: the format the texture is created
\* with, or the panic of unreachable!().
TextureOf(f) ==
    CASE f = "RGB8" -> "RGB8"
      [] f = "RGBA8" -> "RGBA8"
      [] OTHER -> "unreachable"

\* An atlas whose pages have any of the formats; no slot is set yet.
InitFormat ==
    /\ page_format \in [Slots -> AtlasFormats]
    /\ format = [p \in Slots |-> "unset"]
    /\ texture_format = [p \in Slots |-> "none"]
    /\ RenderAtRest /\ FlipAtRest /\ ClockAtRest /\ SkinAtRest

\* The create-texture callback for page p: the slot is set to
\* NeedsToBeLoaded with the converted format.
FormatCreateTexture(p) ==
    /\ format[p] = "unset"
    /\ \A q \in Slots : texture_format[q] # "unreachable"
    /\ format' = [format EXCEPT ![p] = convert_format(page_format[p])]
    /\ UNCHANGED <<page_format, texture_format>>
    /\ UNCHANGED <<renderVars, flipVars, clockVars, skinVars>>

\* The first resolve of page p's slot in a draw: the texture is created
\* with the slot's format.
FormatResolve(p) ==
    /\ format[p] # "unset"
    /\ texture_format[p] = "none"
    /\ \A q \in Slots : texture_format[q] # "unreachable"
    /\ texture_format' = [texture_format EXCEPT ![p] = TextureOf(format[p])]
    /\ UNCHANGED <<page_format, format>>
    /\ UNCHANGED <<renderVars, flipVars, clockVars, skinVars>>

NextFormat ==
    \/ \E p \in Slots : FormatCreateTexture(p)
    \/ \E p \in Slots : FormatResolve(p)

SpecFormat == InitFormat /\ [][NextFormat]_vars

\* ================================================================ claims

\* C1 -- For each of the 8 combinations of blend mode and premultiplied
\* flag, the blend states an iteration sets are exactly the alphaBlend and
\* colorBlend factors of the section 6 table, with equation Add in both,
\* whatever else the state holds.
Section6Row(mode, pma) ==
    CASE mode = "Additive" /\ ~pma ->
           <<"One", "One", "SrcAlpha", "One">>
      [] mode = "Additive" /\ pma ->
           <<"One", "One", "One", "One">>
      [] mode = "Multiply" /\ ~pma ->
           <<"OneMinusSrcAlpha", "OneMinusSrcAlpha",
             "DstColor", "OneMinusSrcAlpha">>
      [] mode = "Multiply" /\ pma ->
           <<"OneMinusSrcAlpha", "OneMinusSrcAlpha",
             "DstColor", "OneMinusSrcAlpha">>
      [] mode = "Normal" /\ ~pma ->
           <<"One", "OneMinusSrcAlpha", "SrcAlpha", "OneMinusSrcAlpha">>
      [] mode = "Normal" /\ pma ->
           <<"One", "OneMinusSrcAlpha", "One", "OneMinusSrcAlpha">>
      [] mode = "Screen" /\ ~pma ->
           <<"OneMinusSrcColor", "OneMinusSrcAlpha",
             "One", "OneMinusSrcAlpha">>
      [] mode = "Screen" /\ pma ->
           <<"OneMinusSrcColor", "OneMinusSrcAlpha",
             "One", "OneMinusSrcAlpha">>

Section6Factor(name) ==
    CASE name = "One" -> One
      [] name = "SrcAlpha" -> Value("SourceAlpha")
      [] name = "OneMinusSrcAlpha" -> OneMinusValue("SourceAlpha")
      [] name = "DstColor" -> Value("DestinationColor")
      [] name = "OneMinusSrcColor" -> OneMinusValue("SourceColor")

C1_BlendTable ==
    step.kind # "none" =>
        LET row == Section6Row(step.mode, premultiplied_alpha)
        IN  /\ step.alpha.equation = "Add"
            /\ step.alpha.sfactor = Section6Factor(row[1])
            /\ step.alpha.dfactor = Section6Factor(row[2])
            /\ step.color.equation = "Add"
            /\ step.color.sfactor = Section6Factor(row[3])
            /\ step.color.dfactor = Section6Factor(row[4])

\* An iteration has set the blend states of a premultiplied Normal
\* renderable, the row in which the flag changes the colour factors.
C1_Witness ==
    /\ step.kind = "draw"
    /\ step.mode = "Normal"
    /\ premultiplied_alpha
    /\ step.color.sfactor = One

\* C2 -- Decode-once: however often a slot is referenced, within a frame or
\* across frames, the decoder runs for it at most once, exactly once as soon
\* as it is Loaded, and every resolve of the slot yields the one texture
\* that first resolve created.
C2_DecodeOnce ==
    /\ \A s \in Slots :
          /\ decodes[s] <= 1
          /\ slot[s].tag = "Loaded" =>
                decodes[s] = 1 /\ slot[s].tex = NewTexture(s, 1)
    /\ step.kind = "draw" =>
          /\ step.tex = NewTexture(step.slot, 1)
          /\ decodes[step.slot] = 1

\* A slot loaded earlier is resolved again by the second renderable of a
\* later frame, without a decode.
C2_Witness ==
    /\ draws = 2
    /\ step.kind = "draw"
    /\ step.binding = 2
    /\ ~step.loaded
    /\ slot[step.slot].tag = "Loaded"

\* C3 -- A slot's state only moves forward: unset -> NeedsToBeLoaded (the
\* create-texture callback), NeedsToBeLoaded -> Loaded (a draw, which
\* changes no slot in any other way), and a Loaded slot is never changed
\* again except by being disposed; so the load happens at most once.
C3_SlotStep(s) ==
    \/ slot'[s] = slot[s]
    \/ slot[s].tag = "Unset" /\ slot'[s] = NeedsToBeLoaded /\ pc = "load"
    \/ /\ slot[s].tag = "NeedsToBeLoaded" /\ slot'[s].tag = "Loaded"
       /\ pc = "loop" /\ i' = i + 1
    \/ /\ slot[s].tag \in {"NeedsToBeLoaded", "Loaded"}
       /\ slot'[s].tag = "Disposed"
       /\ pc' = pc /\ i' = i /\ step' = step

C3_Monotonic == [][\A s \in Slots : C3_SlotStep(s)]_vars

\* A slot that is Loaded has just been resolved again and is still Loaded
\* with the same texture.
C3_Witness ==
    /\ step.kind = "draw"
    /\ ~step.loaded
    /\ slot[step.slot] = Loaded(step.tex)

\* C4 -- (as claimed) In every frame of either sink the queue has been
\* drained, and the drained handles freed, before a draw call of that frame
\* is issued.
C4_DrainedBeforeDraw ==
    (pc = "loop" /\ step.kind = "draw") => drained

\* C5 -- FIFO: a drain frees exactly the handles pushed since the previous
\* drain, in push order, each once, and leaves the queue empty.
C5_DrainStep ==
    (pc = "draining" /\ pc' = "loop") =>
        /\ Len(freed') = Len(enqLog)
        /\ SubSeq(freed', Len(freed) + 1, Len(freed'))
              = SubSeq(enqLog, Len(freed) + 1, Len(enqLog))
        /\ SubSeq(freed', 1, Len(freed)) = freed
        /\ texture_delete_queue' = <<>>

C5_FIFO == [][C5_DrainStep]_vars

\* One drain has just freed two handles that were pushed one after the
\* other.
C5_Witness ==
    /\ pc = "loop" /\ i = 1 /\ drained
    /\ Len(freed) = 2
    /\ texture_delete_queue = <<>>

\* C6 -- Whatever the interleaving of the dispose callback with the render
\* thread, every handle ever pushed is, at any time, either still pending
\* or freed, never both and never twice; and while a drain is in progress
\* it holds the mutex and no push lands in the queue.
NoDuplicates(q) ==
    \A a, b \in 1..Len(q) : a # b => q[a] # q[b]

C7_PoolStep ==
    /\ Len(bindings') >= Len(bindings)
    /\ Len(bindings') > Len(bindings) => n' > Len(bindings)
    /\ Len(bindings') = maxSeen'

C7_PoolMonotonic == [][C7_PoolStep]_vars

\* A frame with fewer renderables than an earlier one is being drawn with
\* the pool the earlier one grew.
C7_Witness ==
    /\ pc = "loop"
    /\ n = 1
    /\ Len(bindings) = 2
    /\ draws = 2

\* C8 -- (as claimed) No Buffer::update is issued for a renderable whose
\* vertex or index count exceeds its ceiling: the counts are checked first.
C8_CeilingChecked ==
    step.kind # "none" =>
        step.vlen <= MAX_MESH_VERTICES /\ step.ilen <= MAX_MESH_INDICES

\* C9 -- With the file sink there is one draw at most and one file at most;
\* a draw that runs to its end has written one file and exited with
\* success, and the render thread never returns from it to another tick.
C9_OneCapture ==
    render_png =>
        /\ draws <= 1
        /\ files <= 1
        /\ (files = 1) <=> (proc = "exited")
        /\ (draws = 1 /\ proc = "running") => pc = "loop"

\* The file sink has drawn a textured renderable, written its file and
\* exited.
C9_Witness ==
    /\ render_png
    /\ proc = "exited"
    /\ files = 1
    /\ draws = 1
    /\ step.kind = "draw"

\* C10 -- (as claimed) The written image has the offscreen colour target's
\* width and height, which are the logical size times the scale factor, and
\* its buffer holds width * height * 4 bytes of that target.
C10_ImageMatchesTarget ==
    files >= 1 =>
        /\ color_texture = <<TargetEdge(dpi2), TargetEdge(dpi2)>>
        /\ image[1] = color_texture[1]
        /\ image[2] = color_texture[2]
        /\ image[3] = color_texture[1] * color_texture[2] * 4

\* C11 -- After one run of the flip loop (and after any odd number of
\* runs), for every width and height, row r of the buffer holds, byte for
\* byte and in the same order, what row h-1-r held when the buffer was read
\* back; the buffer keeps its length, and the middle row of an odd height
\* is where it was.
C11_RowsReversed ==
    (flips % 2 = 1 /\ y = 0) =>
        /\ Len(pixels) = width * height * BYTES_PER_PIXEL
        /\ \A r \in 0..(height - 1) : \A b \in 1..(width * BYTES_PER_PIXEL) :
              pixels[r * width * BYTES_PER_PIXEL + b]
                 = read_back[(height - 1 - r) * width * BYTES_PER_PIXEL + b]
        /\ height % 2 = 1 =>
              \A b \in 1..(width * BYTES_PER_PIXEL) :
                 pixels[(height \div 2) * width * BYTES_PER_PIXEL + b]
                    = read_back[(height \div 2) * width * BYTES_PER_PIXEL + b]

\* A 2 x 3 buffer of distinct bytes has been flipped once.
C11_Witness ==
    /\ flips = 1 /\ y = 0
    /\ width = 2 /\ height = 3
    /\ pixels # read_back
    /\ pixels[1] = read_back[17]

\* C12 -- Flip round trip: after two runs of the flip loop the buffer is,
\* for every width and height (0, 1 and odd heights included), the buffer
\* that was read back.
C12_RoundTrip ==
    (flips = 2 /\ y = 0) => pixels = read_back

\* A buffer of odd height and distinct bytes has been flipped twice.
C12_Witness ==
    /\ flips = 2 /\ y = 0
    /\ height = 3 /\ width = 1
    /\ read_back[1] # read_back[12]
    /\ pixels = read_back

\* C13 -- Every update advances animation time by max(elapsed, epsilon),
\* elapsed being the clock's reading minus the remembered last-frame time:
\* exactly epsilon when elapsed <= 0 (and when it is below epsilon),
\* exactly elapsed when elapsed >= epsilon, never zero or less; and the
\* remembered last-frame time becomes the reading of that update.
C13_UpdateStep ==
    updates' = updates + 1 =>
        LET elapsed == now' - last_frame_time
            advance == animation_time' - animation_time
        IN  /\ elapsed <= 0 => advance = EPSILON
            /\ elapsed >= EPSILON => advance = elapsed
            /\ (0 < elapsed /\ elapsed < EPSILON) => advance = EPSILON
            /\ advance > 0
            /\ dt' = advance
            /\ last_frame_time' = now'

C13_DtClamp == [][C13_UpdateStep]_vars

\* A second update has read a clock set back to 0 after a first update that
\* advanced by more than epsilon, and has advanced by exactly epsilon.
C13_Witness ==
    /\ updates = 2
    /\ now = 0 /\ last_frame_time = 0
    /\ dt = EPSILON
    /\ animation_time > 2 * EPSILON

\* C14 -- Last writer wins: once the base is cloned, and after every merged
\* overlay, the composite defines exactly the keys that the base or a merged
\* overlay defines, each in one entry, and each with the definition of the
\* last skin that has it in the order base, overlay 1, ..., overlay n; so
\* overlays A then B sharing a key give B's definition, B then A give A's.
C14_Layers == <<base_skin>> \o SubSeq(skins_to_add, 1, added)

C14_Holders(key) ==
    {j \in 1..Len(C14_Layers) :
        HasKey(heap_loaded[skeleton_data[C14_Layers[j]]], key)}

C14_LastHolder(key) ==
    CHOOSE j \in C14_Holders(key) : \A l \in C14_Holders(key) : l <= j

C14_LastWriterWins ==
    composite # 0 =>
        LET c == heap[composite]
        IN  /\ \A key \in Keys : HasKey(c, key) <=> C14_Holders(key) # {}
            /\ \A a, b \in 1..Len(c) : c[a].key = c[b].key => a = b
            /\ \A a \in 1..Len(c) :
                  c[a].def = <<C14_Layers[C14_LastHolder(c[a].key)], c[a].key>>

\* Base C and overlays A then B, all three defining "head": the composite
\* has B's definition of it.
C14_Witness ==
    /\ composite # 0
    /\ base_skin = "C" /\ skins_to_add = <<"A", "B">> /\ added = 2
    /\ \A j \in 1..3 : HasKey(heap_loaded[j], "head")
    /\ \E a \in 1..Len(heap[composite]) :
          heap[composite][a] = Entry("head", <<"B", "head">>)

\* C15 -- Identity: with an empty overlay list the composite of any base
\* skin of the skeleton data has exactly the base's entries, keys and
\* definitions.
C15_Identity ==
    (composite # 0 /\ skins_to_add = <<>>) =>
        LET c == heap[composite]
            b == heap_loaded[skeleton_data[base_skin]]
        IN  /\ Len(c) = Len(b)
            /\ {c[a] : a \in 1..Len(c)} = {b[a] : a \in 1..Len(b)}

\* A base with two attachments was composed with no overlay and the window
\* was started with that composite.
C15_Witness ==
    /\ skins_to_add = <<>>
    /\ main_pc = "started"
    /\ composite # 0
    /\ Len(heap[composite]) = 2

\* C16 -- Composition leaves every skin of the skeleton data as it was
\* loaded, the base and the overlays included; the composite is an object
\* of its own, and it alone is written.
C16_OriginalsUntouched ==
    /\ \A name \in DOMAIN skeleton_data :
          heap[skeleton_data[name]] = heap_loaded[skeleton_data[name]]
    /\ composite # 0 =>
          \A name \in DOMAIN skeleton_data : skeleton_data[name] # composite

\* An overlay has been merged and the composite now differs from the base
\* it was cloned from.
C16_Witness ==
    /\ composite # 0
    /\ added >= 1
    /\ heap[composite] # heap_loaded[skeleton_data[base_skin]]
    /\ heap[composite] # <<>>

\* C17 -- When the base name or any overlay name does not resolve, `render`
\* never reaches miniquad::start: no window or GPU context, no stage (no
\* target texture, no animation track), no frame and no file; and it
\* panics only for a name that does not resolve.
C17_Unresolved ==
    \/ find_skin(base_skin) = 0
    \/ \E j \in 1..Len(skins_to_add) : find_skin(skins_to_add[j]) = 0

C17_LookupAborts ==
    /\ C17_Unresolved =>
          /\ main_pc # "started"
          /\ pc = "load" /\ color_texture = <<0, 0>> /\ track = "none"
          /\ draws = 0 /\ files = 0
    /\ main_pc = "panicked" => C17_Unresolved

\* The base and the first overlay resolved and were merged, the second
\* overlay did not resolve, and `render` panicked.
C17_Witness ==
    /\ main_pc = "panicked"
    /\ find_skin(base_skin) # 0
    /\ added = 1
    /\ Len(skins_to_add) = 2

\* C18 -- When the skeleton data has no animation of the configured name,
\* loading fails fatally: track 0 never gets an animation, the render
\* thread never leaves loading (no update, no draw, no loop iteration), and
\* no image or file is produced.
C18_AnimationNotFound ==
    ANIMATION \notin animations =>
        /\ track = "none"
        /\ pc = "load"
        /\ draws = 0 /\ n = 0 /\ step = NoStep
        /\ image = NoImage /\ files = 0
        /\ proc \in {"running", "panicked"}

\* A skeleton with other animations but not the configured one was loaded
\* and Stage::new panicked.
C18_Witness ==
    /\ ANIMATION \notin animations
    /\ animations # {}
    /\ proc = "panicked"
    /\ \A s \in Slots : slot[s] = NeedsToBeLoaded

\* C19 -- (as claimed) For a page whose atlas format is neither RGB888 nor
\* RGBA8888, resolving the slot is fatal: no texture is ever created for it,
\* in RGBA8 or any other substituted format.
C19_UnsupportedFormatFatal ==
    \A p \in DOMAIN page_format :
        page_format[p] \notin {"RGB888", "RGBA8888"} =>
            texture_format[p] \in {"none", "unreachable"}

\* C20 -- When the image of a NeedsToBeLoaded slot cannot be opened or
\* decoded at its first use, the frame aborts there: the process panics,
\* the slot stays NeedsToBeLoaded, the loop does not advance and no binding
\* or draw call is made for that renderable; and from then on nothing
\* happens at all: no later renderable is drawn and the load is not tried
\* again.
C20_Step ==
    /\ (step.kind # "decode_failed" /\ step'.kind = "decode_failed") =>
          /\ proc' = "panicked"
          /\ slot[step'.slot] = NeedsToBeLoaded
          /\ slot' = slot
          /\ decodes'[step'.slot] = 1
          /\ i' = i /\ bindings' = bindings
          /\ UNCHANGED <<freed, texture_delete_queue, files, image>>
    /\ step.kind = "decode_failed" => UNCHANGED vars

C20_DecodeFailureAborts == [][C20_Step]_vars

\* The first of two renderables of a frame failed to decode and the process
\* panicked before the second.
C20_Witness ==
    /\ step.kind = "decode_failed"
    /\ proc = "panicked"
    /\ n = 2 /\ i = 1
    /\ slot[step.slot] = NeedsToBeLoaded

\* C21 -- In file-sink mode a file exists only once every renderable of the
\* frame has been processed, the frame submitted, the pixels read back and
\* the flip done, the save being the last call; after a fatal error at any
\* earlier step of the capture there is no file.
C21_Before(a, b) ==
    \E j, k \in 1..Len(capture_log) :
        j < k /\ capture_log[j] = a /\ capture_log[k] = b

C21_SaveLast ==
    /\ files >= 1 =>
          /\ render_png /\ draws = 1
          /\ i = n + 1
          /\ capture_log[Len(capture_log)] = "save"
          /\ \A call \in {"end_render_pass", "commit_frame",
                          "read_pixels", "flip"} : C21_Before(call, "save")
    /\ proc = "panicked" => files = 0
    /\ files = 0 => \A j \in 1..Len(capture_log) : capture_log[j] # "save"

\* A frame of two renderables was drawn, read back, flipped and saved.
C21_Witness ==
    /\ render_png /\ files = 1
    /\ n = 2 /\ i = 3
    /\ step.kind = "draw"
    /\ Len(capture_log) = 5

\* C22 -- The two sinks share one draw algorithm: from any state of the
\* loop, for any renderable and any attachment, the loop body of the
\* capture branch and that of the screen branch do the same step (blend
\* states, buffer lengths, texture resolved and bound, draw call) and leave
\* the same slots, decode counts and pool.
C22_SameIteration ==
    InLoop =>
        \A r \in Renderables :
            \A s \in {0} \cup {p \in Slots : Referable(p)} :
                CaptureIteration(r, s) = ScreenIteration(r, s)

\* The screen sink is in its loop, at a binding that holds a texture from
\* an earlier frame, with one slot Loaded and another still to be loaded.
C22_Witness ==
    /\ InLoop /\ ~render_png
    /\ bindings[i] # EmptyTexture
    /\ \E p \in Slots : slot[p].tag = "Loaded"
    /\ \E p \in Slots : slot[p].tag = "NeedsToBeLoaded"

C23_RenderThreadStep ==
    \/ Update
    \/ \E count \in 0..MaxRenderables : DrawBegin(count)
    \/ DrainLock
    \/ DrainFree
    \/ \E r \in Renderables : DrawNoAttachment(r)
    \/ DrawEnd

C24_PoolCoversFrame ==
    /\ pc \in {"lock", "draining", "loop"} =>
          Len(bindings) >= n /\ ZipLen = n
    /\ step.kind \in {"draw", "skip"} =>
          /\ pc = "loop" \/ proc = "exited"
          /\ step.binding = i - 1
          /\ 1 <= step.binding /\ step.binding <= n
    /\ (pc = "loop" /\ i > ZipLen) => i = n + 1

\* The second renderable of a frame of two has just been processed with
\* the second binding.
C24_Witness ==
    /\ pc = "loop" /\ proc = "running"
    /\ n = 2 /\ i = 3
    /\ step.binding = 2
    /\ Len(bindings) = 2

\* C25 -- An iteration for a renderable without attachment renderer object
\* updates the buffers and goes on: no slot changes, nothing is decoded,
\* the pool and with it the binding's bound texture stay as they were, no
\* texture is resolved and no draw call made; the loop moves to the next
\* renderable, which is processed next if there is one.
C25_SkipStep ==
    (i' = i + 1 /\ step'.kind = "skip") =>
        /\ slot' = slot /\ decodes' = decodes
        /\ bindings' = bindings
        /\ step'.tex = EmptyTexture /\ step'.slot = 0 /\ ~step'.loaded
        /\ step'.binding = i
        /\ pc' = "loop" /\ proc' = "running" /\ n' = n
        /\ UNCHANGED <<texture_delete_queue, freed, files>>

C25_SkipLeavesBinding == [][C25_SkipStep]_vars

\* A renderable without attachment was skipped at a binding that holds the
\* texture of an earlier frame, and another renderable follows it.
C25_Witness ==
    /\ step.kind = "skip"
    /\ bindings[step.binding] # EmptyTexture
    /\ pc = "loop" /\ proc = "running"
    /\ i = 2 /\ n = 2

\* C26 -- The dispose callback pushes a handle only for a page whose slot
\* is Loaded, and then that slot's handle, once; for a slot still
\* NeedsToBeLoaded it pushes nothing; either way the slot is released.  The
\* queue grows in no other way, so every handle ever pushed is the texture
\* an earlier load created for a slot since released, and none is pushed
\* twice.
C26_Step ==
    /\ \A s \in Slots :
          (slot'[s] # slot[s] /\ slot'[s] = Disposed) =>
              /\ slot[s].tag = "Loaded" =>
                    /\ texture_delete_queue'
                          = Append(texture_delete_queue, slot[s].tex)
                    /\ enqLog' = Append(enqLog, slot[s].tex)
              /\ slot[s].tag = "NeedsToBeLoaded" =>
                    /\ texture_delete_queue' = texture_delete_queue
                    /\ enqLog' = enqLog
    /\ Len(enqLog') > Len(enqLog) =>
          \E s \in Slots :
              /\ slot[s].tag = "Loaded" /\ slot'[s] = Disposed
              /\ enqLog' = Append(enqLog, slot[s].tex)
    /\ \A j \in 1..Len(enqLog') :
          \E s \in Slots :
              /\ enqLog'[j] = NewTexture(s, 1)
              /\ decodes'[s] = 1
              /\ slot'[s] = Disposed
    /\ NoDuplicates(enqLog')

C26_DisposeEnqueues == [][C26_Step]_vars

\* One page was disposed before its slot was ever loaded and another after:
\* only the second left a handle, which is still in the queue.
C26_Witness ==
    /\ \E s \in Slots : slot[s] = Disposed /\ decodes[s] = 0
    /\ \E s \in Slots :
          /\ slot[s] = Disposed /\ decodes[s] = 1
          /\ texture_delete_queue = <<NewTexture(s, 1)>>
    /\ Len(enqLog) = 1

\* C27 -- The premultiplied flag is fixed when the skeleton is loaded: it
\* is true exactly when some atlas page is marked premultiplied, it never
\* changes afterwards, and every iteration of every frame sets the blend
\* states of its renderable's mode for that one value, whichever page the
\* renderable's texture comes from.
C27_Step ==
    /\ track' # "none" =>
          (premultiplied_alpha' <=> \E s \in Slots : page_pma'[s])
    /\ track # "none" => premultiplied_alpha' = premultiplied_alpha
    /\ page_pma' = page_pma
    /\ step'.kind # "none" =>
          LET bs == get_blend_states(step'.mode,
                                     \E s \in Slots : page_pma[s])
          IN  step'.color = bs.color_blend /\ step'.alpha = bs.alpha_blend

C27_OneFlag == [][C27_Step]_vars

\* Only the last page is marked premultiplied, and a Normal renderable
\* whose texture comes from the first, unmarked page was drawn with the
\* premultiplied colour factor.
C27_Witness ==
    /\ premultiplied_alpha
    /\ ~page_pma[1]
    /\ step.kind = "draw" /\ step.slot = 1
    /\ step.mode = "Normal"
    /\ step.color.sfactor = One

====
